---- MODULE Spec2Model ----
(***************************************************************************)
(* State machine of the UniConvert front-end (App component): the batch    *)
(* file queue, the admission rules of processFiles, removeFile, the item   *)
(* selection, and the asynchronous handleConvert run (text mode and the    *)
(* sequential batch loop) with the external convertContent call.           *)
(*                                                                         *)
(* JavaScript strings are sequences of one-character strings, so that      *)
(* split, includes, startsWith, trim and toLowerCase are computed.  The    *)
(* Chinese user messages of the source are written in ASCII; the source    *)
(* line of each is given beside it.  An optional value (string | null,     *)
(* field?: string) is <<>> when absent and <<v>> when present.             *)
(***************************************************************************)
EXTENDS Integers, Sequences, FiniteSets, TLC

VARIABLES
  inputMode,              \* state.inputMode
  inputText,              \* state.inputText
  batchFiles,             \* state.batchFiles
  activeFileId,           \* state.activeFileId
  targetFormat,           \* state.targetFormat
  status,                 \* state.status
  textResult,             \* state.textResult
  error,                  \* state.error
  additionalInstructions, \* state.additionalInstructions
  customFilename,         \* state.customFilename
  download,               \* the file handleDownload last handed to the browser
  random,                 \* the tokens the draws of Math.random() give, in order
  call,                   \* the arguments of the convertContent call in flight
  pc,                     \* where the handleConvert invocation is suspended
  filesToProcess,         \* its snapshot of state.batchFiles (line 161)
  i,                      \* its loop index (1-based), 0 when no loop runs
  closure,                \* the state fields its closure captured at the click
  idCount,                \* number of generateId() draws so far
  last,                   \* history: the last operation and its inputs
  started,                \* history: the queue when the last batch run started,
                          \*   while no user action has happened since
  outcomes                \* history: the settled calls of that run, in order

vars == << inputMode, inputText, batchFiles, activeFileId, targetFormat, status,
           textResult, error, additionalInstructions, pc, filesToProcess, i,
           closure, idCount, last, started, outcomes, customFilename,
           download, random, call >>

(***************************************************************************)
(* Bounds of the model.                                                    *)
(***************************************************************************)
MaxIds == 3

(***************************************************************************)
(* Optional values and strings.                                            *)
(***************************************************************************)
NULL == <<>>

Some(v) == <<v>>

IsSet(o) == o # <<>>

\* JavaScript truthiness of a string: the empty string is falsy.
Truthy(s) == Len(s) > 0

\* The identity generateId() gives when Math.random() returns 0:
\* (0).toString(36) is "0" and "0".substr(2, 9) is the empty string.
EmptyId == 0

\* JavaScript truthiness of an optional identity: null and the empty string
\* are falsy.
TruthyId(o) == IsSet(o) /\ o[1] # EmptyId

\* a || b for an optional string a (null, undefined and "" are falsy).
OrElse(a, b) == IF IsSet(a) /\ Truthy(a[1]) THEN a ELSE b

startsWith(s, p) == Len(p) <= Len(s) /\ SubSeq(s, 1, Len(p)) = p

includes(s, p) ==
  \E k \in 0..(Len(s) - Len(p)) : SubSeq(s, k + 1, k + Len(p)) = p

\* String.prototype.toLowerCase on one character: the letters A-Z and the
\* capital letters of U+00C0-U+00DE.  A TLA+ string cannot hold a character
\* above U+00FF, so no string of the model contains another capital letter.
toLowerChar(c) ==
  CASE c = "A" -> "a" [] c = "B" -> "b" [] c = "C" -> "c" [] c = "D" -> "d"
    [] c = "E" -> "e" [] c = "F" -> "f" [] c = "G" -> "g" [] c = "H" -> "h"
    [] c = "I" -> "i" [] c = "J" -> "j" [] c = "K" -> "k" [] c = "L" -> "l"
    [] c = "M" -> "m" [] c = "N" -> "n" [] c = "O" -> "o" [] c = "P" -> "p"
    [] c = "Q" -> "q" [] c = "R" -> "r" [] c = "S" -> "s" [] c = "T" -> "t"
    [] c = "U" -> "u" [] c = "V" -> "v" [] c = "W" -> "w" [] c = "X" -> "x"
    [] c = "Y" -> "y" [] c = "Z" -> "z"
    [] c = "À" -> "à" [] c = "Á" -> "á" [] c = "Â" -> "â" [] c = "Ã" -> "ã"
    [] c = "Ä" -> "ä" [] c = "Å" -> "å" [] c = "Æ" -> "æ" [] c = "Ç" -> "ç"
    [] c = "È" -> "è" [] c = "É" -> "é" [] c = "Ê" -> "ê" [] c = "Ë" -> "ë"
    [] c = "Ì" -> "ì" [] c = "Í" -> "í" [] c = "Î" -> "î" [] c = "Ï" -> "ï"
    [] c = "Ð" -> "ð" [] c = "Ñ" -> "ñ" [] c = "Ò" -> "ò" [] c = "Ó" -> "ó"
    [] c = "Ô" -> "ô" [] c = "Õ" -> "õ" [] c = "Ö" -> "ö" [] c = "Ø" -> "ø"
    [] c = "Ù" -> "ù" [] c = "Ú" -> "ú" [] c = "Û" -> "û" [] c = "Ü" -> "ü"
    [] c = "Ý" -> "ý" [] c = "Þ" -> "þ"
    [] OTHER -> c

toLowerCase(s) == [k \in 1..Len(s) |-> toLowerChar(s[k])]

\* name.split('.').pop(): the part after the last '.', the whole string when
\* it holds no '.'.
splitPop(s) ==
  IF \E k \in 1..Len(s) : s[k] = "."
    THEN LET d == CHOOSE k \in 1..Len(s) :
                    s[k] = "." /\ \A m \in (k + 1)..Len(s) : s[m] # "."
         IN  SubSeq(s, d + 1, Len(s))
    ELSE s

RECURSIVE join(_, _)
join(parts, sep) ==
  IF Len(parts) = 0 THEN <<>>
  ELSE IF Len(parts) = 1 THEN parts[1]
  ELSE parts[1] \o sep \o join(Tail(parts), sep)

\* The vertical tab (U+000B), written as the character itself: a TLA+
\* string has no escape for it.
VT == ""

\* The no-break space (U+00A0), written as the character itself.
NBSP == " "

\* The white space of String.prototype.trim (lines 132, 250) and of the class
\* \s (line 261): tab, line feed, vertical tab, form feed, carriage return,
\* space and no-break space.  U+FEFF, U+1680, U+2000-U+200A, U+2028, U+2029,
\* U+202F, U+205F and U+3000 are white space too; a TLA+ string cannot hold
\* a character above U+00FF, so no string of the model contains one.
IsSpace(c) == c \in {" ", "\t", "\n", "\r", "\f", VT, NBSP}

RECURSIVE trimStart(_)
trimStart(s) ==
  IF Len(s) > 0 /\ IsSpace(s[1]) THEN trimStart(Tail(s)) ELSE s

RECURSIVE trimEnd(_)
trimEnd(s) ==
  IF Len(s) > 0 /\ IsSpace(s[Len(s)])
    THEN trimEnd(SubSeq(s, 1, Len(s) - 1)) ELSE s

\* Mutant: the input is not trimmed.
trim_none(s) == s

trim(s) == trimEnd(trimStart(s))

digit(n) ==
  CASE n = 0 -> "0" [] n = 1 -> "1" [] n = 2 -> "2" [] n = 3 -> "3"
    [] n = 4 -> "4" [] n = 5 -> "5" [] n = 6 -> "6" [] n = 7 -> "7"
    [] n = 8 -> "8" [] OTHER -> "9"

RECURSIVE digits(_)
digits(n) == IF n < 10 THEN <<digit(n)>> ELSE digits(n \div 10) \o <<digit(n % 10)>>

\* (size / 1024 / 1024).toFixed(1): the nearest tenth, the larger one on a tie.
toFixed1MB(size) ==
  LET tenths == (size * 20 + 1048576) \div 2097152
  IN  digits(tenths \div 10) \o <<".">> \o <<digit(tenths % 10)>>

(***************************************************************************)
(* types.ts                                                                *)
(***************************************************************************)
SUPPORTED_FILE_TYPES ==
  << <<"i","m","a","g","e","/","p","n","g">>,
     <<"i","m","a","g","e","/","j","p","e","g">>,
     <<"i","m","a","g","e","/","w","e","b","p">>,
     <<"i","m","a","g","e","/","h","e","i","c">>,
     <<"a","p","p","l","i","c","a","t","i","o","n","/","p","d","f">>,
     <<"t","e","x","t","/","p","l","a","i","n">>,
     <<"t","e","x","t","/","c","s","v">>,
     <<"t","e","x","t","/","h","t","m","l">>,
     <<"a","p","p","l","i","c","a","t","i","o","n","/","j","s","o","n">>,
     <<"t","e","x","t","/","m","a","r","k","d","o","w","n">>,
     <<"t","e","x","t","/","x","-","y","a","m","l">>,
     <<"a","p","p","l","i","c","a","t","i","o","n","/","v","n","d",".","o","p","e","n","x","m","l","f","o","r","m","a","t","s","-","o","f","f","i","c","e","d","o","c","u","m","e","n","t",".","w","o","r","d","p","r","o","c","e","s","s","i","n","g","m","l",".","d","o","c","u","m","e","n","t">> >>

\* The extensions the component appends to SUPPORTED_FILE_TYPES (line 41).
ACCEPT_EXTENSIONS ==
  << <<".","p","d","f">>,
     <<".","d","o","c","x">>,
     <<".","d","o","c">>,
     <<".","c","s","v">>,
     <<".","t","x","t">>,
     <<".","m","d">>,
     <<".","j","s","o","n">>,
     <<".","x","m","l">>,
     <<".","h","t","m","l">>,
     <<".","y","a","m","l">>,
     <<".","y","m","l">> >>

\* [...SUPPORTED_FILE_TYPES, '.pdf', ...].join(',')
ACCEPT_STRING == join(SUPPORTED_FILE_TYPES \o ACCEPT_EXTENSIONS, <<",">>)

MAX_SIZE == 5 * 1024 * 1024

(***************************************************************************)
(* User-visible messages.  Each is one piece of text; a template literal   *)
(* is the concatenation of its pieces and the interpolated strings.        *)
(***************************************************************************)
\* line 133: '请输入需要转换的文本。'
MsgNeedText == <<"Please enter the text to convert.">>

\* line 138: '请至少选择一个文件。'
MsgNeedFile == <<"Please select at least one file.">>

\* line 156: '发生意外错误。'
MsgUnexpected == <<"An unexpected error occurred.">>

\* geminiService.ts line 182: "未生成任何内容。"
MsgNoContent == <<"No content was generated.">>

\* geminiService.ts line 188
MsgTransport == <<"The file is too large for the network transfer; compress the PDF or use a file under 5MB.">>

\* geminiService.ts line 191: "API Key 配置无效。"
MsgAuth == <<"The API Key configuration is invalid.">>

\* geminiService.ts line 194: "转换内容失败，请重试。"
MsgConvertFailed == <<"Converting the content failed, please retry.">>

\* line 59: `文件 ${file.name} 过大 (${(file.size / 1024 / 1024).toFixed(1)}MB)。请上传 5MB 以内的文件。`
MsgTooLarge(file) ==
  <<"File ">> \o file.name \o <<" is too large (">> \o toFixed1MB(file.size)
    \o <<"MB). Please upload files within 5MB.">>

\* line 69: `不支持的文件类型: ${file.name}`
MsgUnsupported(file) == <<"Unsupported file type: ">> \o file.name

(***************************************************************************)
(* processFiles: the admission rules (lines 56-78).                        *)
(***************************************************************************)
File(name, type, size) == [name |-> name, type |-> type, size |-> size]

\* '.' + file.name.split('.').pop()?.toLowerCase()
fileExt(file) == <<".">> \o toLowerCase(splitPop(file.name))

isValidMime(file) ==
  \E k \in 1..Len(SUPPORTED_FILE_TYPES) :
    \/ file.type = SUPPORTED_FILE_TYPES[k]
    \/ startsWith(file.type, SUPPORTED_FILE_TYPES[k])

isValidExt(file) == includes(ACCEPT_STRING, fileExt(file))

\* 1. Size Check
sizeRejects(file) == file.size > MAX_SIZE

\* Mutant: the type rule also applies to a candidate without declared type.
typeRejects_emptyToo(file) == ~isValidMime(file) /\ ~isValidExt(file)

\* 2. Type Check
typeRejects(file) == ~isValidMime(file) /\ ~isValidExt(file) /\ file.type # <<>>

\* generateId() after n earlier draws: Math.random().toString(36).substr(2, 9)
\* of the next draw, as a token.
generateId(n) == random[n + 1]

BatchFileItem(id, file) ==
  [id |-> id, file |-> file, status |-> "idle", result |-> NULL, error |-> NULL]

\* Mutant: a rejection ends the loop, the later candidates are not looked at.
RECURSIVE forEachFile_stop(_, _, _, _)
forEachFile_stop(files, n, newFiles, errorMsg) ==
  IF Len(files) = 0
    THEN [newFiles |-> newFiles, errorMsg |-> errorMsg, n |-> n]
  ELSE IF sizeRejects(Head(files))
    THEN [newFiles |-> newFiles, errorMsg |-> Some(MsgTooLarge(Head(files))),
          n |-> n]
  ELSE IF typeRejects(Head(files))
    THEN [newFiles |-> newFiles,
          errorMsg |-> Some(MsgUnsupported(Head(files))), n |-> n]
  ELSE forEachFile_stop(Tail(files), n + 1,
                        Append(newFiles, BatchFileItem(generateId(n), Head(files))),
                        errorMsg)

\* The forEach of lines 56-78 over the remaining files: n counts the ids
\* drawn, newFiles and errorMsg are the two accumulators.
RECURSIVE forEachFile(_, _, _, _)
forEachFile(files, n, newFiles, errorMsg) ==
  IF Len(files) = 0
    THEN [newFiles |-> newFiles, errorMsg |-> errorMsg, n |-> n]
  ELSE LET file == Head(files) IN
    IF sizeRejects(file)
      THEN forEachFile(Tail(files), n, newFiles, Some(MsgTooLarge(file)))
    ELSE IF typeRejects(file)
      THEN forEachFile(Tail(files), n, newFiles, Some(MsgUnsupported(file)))
    ELSE forEachFile(Tail(files), n + 1,
                     Append(newFiles, BatchFileItem(generateId(n), file)),
                     errorMsg)

\* Mutant: the first item of the call becomes the active one even when an
\* item is active already.
enqueueActive_always(prevActive, newFiles) ==
  IF Len(newFiles) > 0 THEN Some(newFiles[1].id) ELSE prevActive

\* The setState updater of lines 80-89; line 86 tests prev.activeFileId for
\* truthiness.
enqueueActive(prevActive, newFiles) ==
  IF TruthyId(prevActive) THEN prevActive
  ELSE IF Len(newFiles) > 0 THEN Some(newFiles[1].id) ELSE prevActive

\* Mutant: the message of the call is dropped.
enqueueError_keep(errorMsg, prevError) == prevError

enqueueError(errorMsg, prevError) == OrElse(errorMsg, prevError)

(***************************************************************************)
(* History variables.                                                      *)
(***************************************************************************)
Op(name, files, id) == [op |-> name, files |-> files, id |-> id]

UserActed(name, files, id) ==
  /\ last' = Op(name, files, id)
  /\ started' = NULL
  /\ outcomes' = <<>>

ItemIds(items) == {items[k].id : k \in 1..Len(items)}

(***************************************************************************)
(* Initial state (useState, lines 22-33) and the user's operations.        *)
(***************************************************************************)
TARGET_JSON == "JSON"

\* The draws of Math.random() a behaviour can meet.
Draws == 1..(2 * MaxIds)

\* Draws that all differ: two draws of Math.random().toString(36).substr(2, 9)
\* coincide with a probability of about 36^-9.
FreshDraws == [n \in Draws |-> n]

Init ==
  /\ inputMode = "text"
  /\ inputText = <<>>
  /\ batchFiles = <<>>
  /\ activeFileId = NULL
  /\ targetFormat = TARGET_JSON
  /\ status = "idle"
  /\ textResult = <<>>
  /\ error = NULL
  /\ additionalInstructions = <<>>
  /\ customFilename = <<>>
  /\ download = NULL
  /\ random = FreshDraws
  /\ call = NULL
  /\ pc = "idle"
  /\ filesToProcess = <<>>
  /\ i = 0
  /\ closure = NULL
  /\ idCount = 0
  /\ last = Op("init", <<>>, -1)
  /\ started = NULL
  /\ outcomes = <<>>

handleInputModeChange(mode) ==
  /\ inputMode' = mode
  /\ error' = NULL
  /\ UserActed("handleInputModeChange", <<>>, -1)
  /\ UNCHANGED << customFilename, download, random, call >>
  /\ UNCHANGED << inputText, batchFiles, activeFileId, targetFormat, status,
                  textResult, additionalInstructions, pc, filesToProcess, i,
                  closure, idCount >>

\* onChange of the textarea (line 325), rendered in text mode only.
setInputText(text) ==
  /\ inputMode = "text"
  /\ inputText' = text
  /\ error' = NULL
  /\ UserActed("setInputText", <<>>, -1)
  /\ UNCHANGED << customFilename, download, random, call >>
  /\ UNCHANGED << inputMode, batchFiles, activeFileId, targetFormat, status,
                  textResult, additionalInstructions, pc, filesToProcess, i,
                  closure, idCount >>

\* handleFileChange / handleDrop (lines 94-105) call processFiles with a
\* non-empty list; the file input exists in file mode only.
processFiles(files) ==
  LET r == forEachFile(files, idCount, <<>>, NULL) IN
  /\ inputMode = "file"
  /\ Len(files) > 0
  /\ r.n <= MaxIds
  /\ batchFiles' = batchFiles \o r.newFiles
  /\ activeFileId' = enqueueActive(activeFileId, r.newFiles)
  /\ error' = enqueueError(r.errorMsg, error)
  /\ idCount' = r.n
  /\ UserActed("processFiles", files, -1)
  /\ UNCHANGED << customFilename, download, random, call >>
  /\ UNCHANGED << inputMode, inputText, targetFormat, status, textResult,
                  additionalInstructions, pc, filesToProcess, i, closure >>

\* Mutant: the active identity stays when its item is removed.
removeActive_keep(id, prevActive, newFiles) == prevActive

\* prev.batchFiles.filter(f => f.id !== id) (line 114)
removeItems(id, items) == SelectSeq(items, LAMBDA f : f.id # id)

\* lines 115-120
removeActive(id, prevActive, newFiles) ==
  IF Some(id) = prevActive
    THEN (IF Len(newFiles) > 0 THEN Some(newFiles[1].id) ELSE NULL)
    ELSE prevActive

\* removeFile(id) (lines 111-128); the remove button that calls it (line 378)
\* exists for the listed items, in file mode.
removeFile(id) ==
  LET newFiles == removeItems(id, batchFiles) IN
  /\ inputMode = "file"
  /\ batchFiles' = newFiles
  /\ activeFileId' = removeActive(id, activeFileId, newFiles)
  /\ UserActed("removeFile", <<>>, id)
  /\ UNCHANGED << customFilename, download, random, call >>
  /\ UNCHANGED << inputMode, inputText, targetFormat, status, textResult, error,
                  additionalInstructions, pc, filesToProcess, i, closure,
                  idCount >>

\* Click on a listed item (line 345).
selectFile(id) ==
  /\ inputMode = "file"
  /\ id \in ItemIds(batchFiles)
  /\ activeFileId' = Some(id)
  /\ UserActed("selectFile", <<>>, id)
  /\ UNCHANGED << customFilename, download, random, call >>
  /\ UNCHANGED << inputMode, inputText, batchFiles, targetFormat, status,
                  textResult, error, additionalInstructions, pc, filesToProcess,
                  i, closure, idCount >>

\* The target format buttons (line 426).
setTargetFormat(format) ==
  /\ targetFormat' = format
  /\ UserActed("setTargetFormat", <<>>, -1)
  /\ UNCHANGED << customFilename, download, random, call >>
  /\ UNCHANGED << inputMode, inputText, batchFiles, activeFileId, status,
                  textResult, error, additionalInstructions, pc, filesToProcess,
                  i, closure, idCount >>

\* onChange of the instructions input (line 463).
setAdditionalInstructions(text) ==
  /\ additionalInstructions' = text
  /\ UserActed("setAdditionalInstructions", <<>>, -1)
  /\ UNCHANGED << customFilename, download, random, call >>
  /\ UNCHANGED << inputMode, inputText, batchFiles, activeFileId, targetFormat,
                  status, textResult, error, pc, filesToProcess, i, closure,
                  idCount >>

(***************************************************************************)
(* convertContent (geminiService.ts): what the caller sees of one settled  *)
(* external call.  A raw outcome is what generateContent (or the file      *)
(* read before it) produced: a response with its text, or a thrown value   *)
(* with its message and its toString().                                    *)
(***************************************************************************)
Response(text) == [ok |-> TRUE, text |-> text, message |-> NULL, string |-> <<>>]

Thrown(message, string) ==
  [ok |-> FALSE, text |-> NULL, message |-> message, string |-> string]

\* new Error(m): toString() is "Error: " + m, or "Error" for an empty m.
ErrorOf(m) ==
  Thrown(Some(m), IF Len(m) = 0 THEN <<"E","r","r","o","r">>
                  ELSE <<"E","r","r","o","r",":"," ">> \o m)

Resolved(text) == [ok |-> TRUE, value |-> text]

Rejected(message) == [ok |-> FALSE, value |-> message]

RpcFailed == <<"R","p","c"," ","f","a","i","l","e","d">>

Code413 == <<"4","1","3">>

ApiKey == <<"A","P","I","_","K","E","Y">>

\* error.message?.includes(p)
messageIncludes(raw, p) == IsSet(raw.message) /\ includes(raw.message[1], p)

\* Mutant: the API key test comes before the transport test.
convertContent_authFirst(raw) ==
  IF raw.ok
    THEN Resolved(OrElse(raw.text, Some(MsgNoContent))[1])
  ELSE IF messageIncludes(raw, ApiKey)
    THEN Rejected(MsgAuth)
  ELSE IF messageIncludes(raw, RpcFailed) \/ includes(raw.string, Code413)
    THEN Rejected(MsgTransport)
  ELSE Rejected(OrElse(raw.message, Some(MsgConvertFailed))[1])

convertContent(raw) ==
  IF raw.ok
    THEN Resolved(OrElse(raw.text, Some(MsgNoContent))[1])
  ELSE IF messageIncludes(raw, RpcFailed) \/ includes(raw.string, Code413)
    THEN Rejected(MsgTransport)
  ELSE IF messageIncludes(raw, ApiKey)
    THEN Rejected(MsgAuth)
  ELSE Rejected(OrElse(raw.message, Some(MsgConvertFailed))[1])

(***************************************************************************)
(* handleConvert (lines 130-206).  The code up to the first await, and     *)
(* each continuation after an await, runs as one step: the setState calls  *)
(* of one step are applied in order to the latest state.                   *)
(***************************************************************************)
\* Mutant: nothing is skipped, a succeeded item is converted again.
skipItem_never(fileItem) == FALSE

\* Mutant: a failed item is skipped like a succeeded one.
skipItem_failedToo(fileItem) == fileItem.status \in {"success", "error"}

\* Mutant: an item removed from the queue meanwhile is skipped as well.
skipItem_removedToo(fileItem) ==
  fileItem.status = "success" \/ fileItem.id \notin ItemIds(batchFiles)

\* line 167
skipItem(fileItem) == fileItem.status = "success"

\* The loop head of lines 163-167 from index k on: the index of the next
\* item to process, Len(files) + 1 when the loop ends.
RECURSIVE nextToProcess(_, _)
nextToProcess(files, k) ==
  IF k > Len(files) THEN k
  ELSE IF skipItem(files[k]) THEN nextToProcess(files, k + 1)
  ELSE k

\* Mutant: the catch lies outside the loop, a failure ends the batch.
afterSettle_abort(r, files, k) ==
  IF r.ok THEN nextToProcess(files, k + 1) ELSE Len(files) + 1

\* Mutant: a failed item is tried again until its call succeeds.
afterSettle_retry(r, files, k) ==
  IF r.ok THEN nextToProcess(files, k + 1) ELSE k

\* The try/catch of lines 178-200 lies inside the loop body: after the
\* outcome r of item k is recorded, success or failure, the loop goes on.
afterSettle(r, files, k) == nextToProcess(files, k + 1)

\* Mutant: the message of the earlier failure is kept.
markProcessing_keepError(items, id) ==
  [k \in 1..Len(items) |->
     IF items[k].id = id
       THEN [items[k] EXCEPT !.status = "processing"]
       ELSE items[k]]

\* lines 173-175
markProcessing(items, id) ==
  [k \in 1..Len(items) |->
     IF items[k].id = id
       THEN [items[k] EXCEPT !.status = "processing", !.error = NULL]
       ELSE items[k]]

\* Mutant: the success of a call is not recorded.
markSuccess_lost(items, id, result) == items

\* lines 188-190
markSuccess(items, id, result) ==
  [k \in 1..Len(items) |->
     IF items[k].id = id
       THEN [items[k] EXCEPT !.status = "success", !.result = Some(result)]
       ELSE items[k]]

\* Mutant: a failure ends the batch, every item not yet converted fails
\* with the message.
markError_rest(items, id, message) ==
  [k \in 1..Len(items) |->
     IF items[k].status # "success"
       THEN [items[k] EXCEPT !.status = "error", !.error = Some(message)]
       ELSE items[k]]

\* lines 196-198
markError(items, id, message) ==
  [k \in 1..Len(items) |->
     IF items[k].id = id
       THEN [items[k] EXCEPT !.status = "error", !.error = Some(message)]
       ELSE items[k]]

Captured ==
  [inputMode |-> inputMode, inputText |-> inputText,
   targetFormat |-> targetFormat,
   additionalInstructions |-> additionalInstructions]

\* lines 132-135
textValidationFails == inputMode = "text" /\ ~Truthy(trim(inputText))

\* lines 137-140
fileValidationFails == inputMode = "file" /\ Len(batchFiles) = 0

\* Mutant: the call reads the target format and the instructions of the
\* latest state.
callArguments_latest(input, captured) ==
  [input |-> input, targetFormat |-> targetFormat,
   instructions |-> additionalInstructions]

\* The arguments of convertContent (lines 146-150 and 179-183): the input,
\* and the target format and the instructions of the state the handler's
\* closure holds.
callArguments(input, captured) ==
  [input |-> input, targetFormat |-> captured.targetFormat,
   instructions |-> captured.additionalInstructions]

\* Mutant: the convert button is never disabled.
convertDisabled_never == FALSE

\* disabled={state.status === 'processing'} of the convert button (line 480)
convertDisabled == status = "processing"

handleConvert ==
  /\ ~convertDisabled
  /\ last' = Op("handleConvert", <<>>, -1)
  /\ UNCHANGED << customFilename, download, random >>
  /\ outcomes' = <<>>
  /\ IF textValidationFails THEN
       /\ error' = Some(MsgNeedText)
       /\ started' = NULL
       /\ UNCHANGED call
       /\ UNCHANGED << inputMode, inputText, batchFiles, activeFileId,
                       targetFormat, status, textResult,
                       additionalInstructions, pc, filesToProcess, i, closure,
                       idCount >>
     ELSE IF fileValidationFails THEN
       /\ error' = Some(MsgNeedFile)
       /\ started' = NULL
       /\ UNCHANGED call
       /\ UNCHANGED << inputMode, inputText, batchFiles, activeFileId,
                       targetFormat, status, textResult,
                       additionalInstructions, pc, filesToProcess, i, closure,
                       idCount >>
     ELSE IF inputMode = "text" THEN
       /\ status' = "processing"
       /\ error' = NULL
       /\ pc' = "text"
       /\ closure' = Some(Captured)
       /\ call' = Some(callArguments(inputText, Captured))
       /\ started' = NULL
       /\ UNCHANGED << inputMode, inputText, batchFiles, activeFileId,
                       targetFormat, textResult, additionalInstructions,
                       filesToProcess, i, idCount >>
     ELSE
       LET k == nextToProcess(batchFiles, 1) IN
       /\ error' = NULL
       /\ started' = Some(batchFiles)
       /\ IF k <= Len(batchFiles) THEN
            /\ status' = "processing"
            /\ activeFileId' = Some(batchFiles[k].id)
            /\ batchFiles' = markProcessing(batchFiles, batchFiles[k].id)
            /\ pc' = "file"
            /\ filesToProcess' = batchFiles
            /\ i' = k
            /\ closure' = Some(Captured)
            /\ call' = Some(callArguments(batchFiles[k].file, Captured))
          ELSE
            /\ status' = "idle"       \* line 142, then line 204
            /\ UNCHANGED << batchFiles, activeFileId, pc, filesToProcess, i,
                            closure, call >>
       /\ UNCHANGED << inputMode, inputText, targetFormat, textResult,
                       additionalInstructions, idCount >>

\* Mutant: the catch of the text run sets no message.
textFailureMessage_none(r) == NULL

\* err.message || fallback (line 156)
textFailureMessage(r) == OrElse(Some(r.value), Some(MsgUnexpected))

\* The continuation of the text-mode await (lines 151-157).
settleText(raw) ==
  LET r == convertContent(raw) IN
  /\ pc = "text"
  /\ IF r.ok
       THEN status' = "success" /\ textResult' = r.value /\ UNCHANGED error
       ELSE /\ status' = "error"
            /\ error' = textFailureMessage(r)
            /\ UNCHANGED textResult
  /\ pc' = "idle"
  /\ closure' = NULL
  /\ call' = NULL
  /\ last' = Op("settle", <<raw>>, -1)
  /\ UNCHANGED << customFilename, download, random >>
  /\ outcomes' = <<r>>
  /\ UNCHANGED << inputMode, inputText, batchFiles, activeFileId, targetFormat,
                  additionalInstructions, filesToProcess, i, idCount, started >>

\* Mutant: the loop reads the queue of the latest state when it has grown.
loopFiles_latest ==
  IF Len(batchFiles) > Len(filesToProcess) THEN batchFiles ELSE filesToProcess

\* The list the loop walks: filesToProcess, read from the state of the
\* click once, before the loop (line 161).
loopFiles == filesToProcess

\* The continuation of the batch await (lines 185-200), the loop head for
\* the next item (lines 163-176) or the end of the loop (line 204).
settleFile(raw) ==
  LET r        == convertContent(raw)
      files    == loopFiles
      fileItem == files[i]
      settled  == IF r.ok THEN markSuccess(batchFiles, fileItem.id, r.value)
                  ELSE markError(batchFiles, fileItem.id, r.value)
      k        == afterSettle(r, files, i)
  IN
  /\ pc = "file"
  /\ IF k <= Len(files) THEN
       /\ activeFileId' = Some(files[k].id)
       /\ batchFiles' = markProcessing(settled, files[k].id)
       /\ i' = k
       /\ call' = Some(callArguments(files[k].file, closure[1]))
       /\ UNCHANGED << status, pc, filesToProcess, closure >>
     ELSE
       /\ batchFiles' = settled
       /\ status' = "idle"
       /\ pc' = "idle"
       /\ filesToProcess' = <<>>
       /\ i' = 0
       /\ closure' = NULL
       /\ call' = NULL
       /\ UNCHANGED activeFileId
  /\ last' = Op("settle", <<raw>>, fileItem.id)
  /\ UNCHANGED << customFilename, download, random >>
  /\ outcomes' = IF IsSet(started) THEN Append(outcomes, r) ELSE <<>>
  /\ UNCHANGED << inputMode, inputText, targetFormat, textResult, error,
                  additionalInstructions, idCount, started >>

(***************************************************************************)
(* Inputs of the model and the specifications.                             *)
(***************************************************************************)
TypePdf == <<"a","p","p","l","i","c","a","t","i","o","n","/","p","d","f">>

TypeGif == <<"i","m","a","g","e","/","g","i","f">>

FilePdf == File(<<"a",".","p","d","f">>, TypePdf, 3 * 1024)

FileGif == File(<<"f",".","g","i","f">>, TypeGif, 3 * 1024)

\* The file lists the user uploads in the main specification.
UploadChoices == { <<FilePdf>>, <<FileGif, FilePdf>> }

\* A blank text (white space of six kinds) and a text.
BlankText == <<" ", "\f", "\r", "\n", VT, NBSP>>

TextChoices == { BlankText, <<"a">> }

TARGET_CSV == "CSV"

TargetChoices == { TARGET_JSON, TARGET_CSV }

InstructionChoices == { <<>>, <<"x">> }

\* What one external call can produce in the main specification.
RawOutcomes ==
  { Response(Some(<<"r","1">>)), ErrorOf(<<"b","o","o","m">>),
    Thrown(NULL, <<"[","o","b","j","e","c","t","]">>) }

\* The batch queue: uploads, removals, selections and batch runs (in text
\* mode the input stays empty, so a run there ends at its validation).
NextBatch ==
  \/ \E mode \in {"text", "file"} : handleInputModeChange(mode)
  \/ \E files \in UploadChoices : processFiles(files)
  \/ \E id \in ItemIds(batchFiles) : removeFile(id)
  \/ \E id \in ItemIds(batchFiles) : selectFile(id)
  \/ handleConvert
  \/ \E raw \in RawOutcomes : settleFile(raw)

SpecBatch == Init /\ [][NextBatch]_vars

\* Runs in both modes: the batch queue and the text input, with the target
\* format and the instructions left as they start.
NextRun ==
  \/ \E mode \in {"text", "file"} : handleInputModeChange(mode)
  \/ \E text \in TextChoices : setInputText(text)
  \/ \E files \in UploadChoices : processFiles(files)
  \/ \E id \in ItemIds(batchFiles) : removeFile(id)
  \/ \E id \in ItemIds(batchFiles) : selectFile(id)
  \/ handleConvert
  \/ \E raw \in RawOutcomes : settleText(raw)
  \/ \E raw \in RawOutcomes : settleFile(raw)

SpecRun == Init /\ [][NextRun]_vars

(***************************************************************************)
(* Admission: the candidates offered to processFiles.                      *)
(***************************************************************************)
TypeJs == <<"t","e","x","t","/","j","a","v","a","s","c","r","i","p","t">>

TypeSh == <<"a","p","p","l","i","c","a","t","i","o","n","/","x","-","s","h">>

TypeOctet == <<"a","p","p","l","i","c","a","t","i","o","n","/","o","c","t","e","t","-","s","t","r","e","a","m">>

MB == 1024 * 1024

\* a listed type, within the limit
CandPdf == File(<<"a",".","P","D","F">>, TypePdf, 3 * 1024)

\* a listed type, of exactly 5 MiB
CandPdfAtLimit == File(<<"l",".","p","d","f">>, TypePdf, 5 * MB)

\* a listed type, one byte over 5 MiB
CandPdfOver == File(<<"o",".","p","d","f">>, TypePdf, 5 * MB + 1)

\* an unlisted type and extension, 6 MiB
CandShBig == File(<<"b",".","s","h">>, TypeSh, 6 * MB)

\* an unlisted type and an unlisted extension
CandSh == File(<<"c",".","s","h">>, TypeSh, 3 * 1024)

\* an unlisted type and no extension
CandReadme == File(<<"R","E","A","D","M","E">>, TypeOctet, 3 * 1024)

\* an unlisted type and a listed extension
CandYml == File(<<"g",".","y","m","l">>, TypeOctet, 3 * 1024)

\* an unlisted type and the unlisted extension js
CandJs == File(<<"s",".","j","s">>, TypeJs, 3 * 1024)

\* no declared type and an unlisted extension
CandNoTypeSh == File(<<"n",".","s","h">>, <<>>, 3 * 1024)

\* no declared type and a listed extension
CandNoTypeMd == File(<<"m",".","m","d">>, <<>>, 3 * 1024)

Candidates ==
  { CandPdf, CandPdfAtLimit, CandPdfOver, CandShBig, CandSh, CandReadme,
    CandYml, CandJs, CandNoTypeSh, CandNoTypeMd }

PairCandidates == { CandPdf, CandPdfOver, CandSh, CandNoTypeSh }

\* One candidate of each kind, and every ordered pair of four of them.
AdmitCalls ==
  { <<f>> : f \in Candidates }
    \cup { <<f, g>> : f \in PairCandidates, g \in PairCandidates }

NextAdmit ==
  \/ \E mode \in {"text", "file"} : handleInputModeChange(mode)
  \/ \E files \in AdmitCalls : processFiles(files)

SpecAdmit == Init /\ [][NextAdmit]_vars

(***************************************************************************)
(* Properties of the batch run.                                            *)
(***************************************************************************)
AllPending(items) == \A k \in 1..Len(items) : items[k].status = "idle"

\* A batch run has ended and the user did nothing since it started.
RunFinishedQuietly == IsSet(started) /\ pc = "idle"

ItemById(items, id) == items[CHOOSE k \in 1..Len(items) : items[k].id = id]

\* The item carries the outcome o of its call.
Carries(item, o) ==
  IF o.ok
    THEN item.status = "success" /\ item.result = Some(o.value)
    ELSE item.status = "error" /\ IsSet(item.error) /\ Truthy(item.error[1])
           /\ item.error = Some(o.value)

\* This step issues the external call for item id.
CallIssuedFor(id) ==
  /\ pc' = "file"
  /\ filesToProcess'[i'].id = id
  /\ pc # "file" \/ i' # i

\* This step is a step of handleConvert: its start or a continuation.
RunStep == last'.op \in {"handleConvert", "settle"}

\* C1: a batch run over a queue of N pending items, with no user action
\* during the run, ends with every call made, each item whose call succeeded
\* in 'success' with the returned text as its result, each item whose call
\* failed in 'error' with a message, and the run status 'idle'.
C1_BatchOutcomes ==
  (RunFinishedQuietly /\ AllPending(started[1])) =>
    /\ status = "idle"
    /\ Len(outcomes) = Len(started[1])
    /\ Len(batchFiles) = Len(started[1])
    /\ \A k \in 1..Len(batchFiles) :
         /\ batchFiles[k].id = started[1][k].id
         /\ Carries(batchFiles[k], outcomes[k])

\* C1 witness: a run over three pending items has ended; the first call
\* failed, the second succeeded, the third failed.
C1_Witness ==
  /\ RunFinishedQuietly
  /\ AllPending(started[1])
  /\ Len(started[1]) = 3
  /\ Len(outcomes) = 3
  /\ ~outcomes[1].ok /\ outcomes[2].ok /\ ~outcomes[3].ok
  /\ batchFiles[2].status = "success"

\* C2: no step issues an external call for an item that is in 'success', and
\* no step of a run changes such an item.
C2_SucceededUntouched ==
  [][ \A k \in 1..Len(batchFiles) :
        batchFiles[k].status = "success" =>
          /\ ~CallIssuedFor(batchFiles[k].id)
          /\ RunStep => \E m \in 1..Len(batchFiles') :
                          batchFiles'[m] = batchFiles[k] ]_vars

\* C2 witness: a second run is under way that skipped a succeeded item and
\* waits for the call of a later one.
C2_Witness ==
  /\ pc = "file"
  /\ \E k \in 1..Len(filesToProcess) :
       /\ k < i
       /\ filesToProcess[k].status = "success"
       /\ \E m \in 1..Len(batchFiles) :
            batchFiles[m] = filesToProcess[k]

\* C3 as stated: without a retry request, no step issues a call for an item
\* in 'error', and no step of a run changes such an item.
C3_FailedNotRetried ==
  [][ \A k \in 1..Len(batchFiles) :
        batchFiles[k].status = "error" =>
          /\ ~CallIssuedFor(batchFiles[k].id)
          /\ RunStep => \E m \in 1..Len(batchFiles') :
                          batchFiles'[m] = batchFiles[k] ]_vars

\* C3 amended: a run (with no user action during it) makes one call for
\* every item that was not in 'success' when it started, failed items
\* included, in queue order, and each of these items carries the outcome of
\* its new call; the items that were in 'success' are left as they were.
C3_RerunRetriesFailed ==
  RunFinishedQuietly =>
    LET before == started[1]
        todo   == SelectSeq(before, LAMBDA f : f.status # "success")
    IN  /\ Len(outcomes) = Len(todo)
        /\ Len(batchFiles) = Len(before)
        /\ \A k \in 1..Len(todo) :
             Carries(ItemById(batchFiles, todo[k].id), outcomes[k])
        /\ \A k \in 1..Len(before) :
             before[k].status = "success" => batchFiles[k] = before[k]

\* C3 witness: a re-run has ended in which an item that had failed before
\* was converted again and succeeded, while another kept its earlier success.
C3_Witness ==
  /\ RunFinishedQuietly
  /\ \E k \in 1..Len(started[1]) :
       /\ started[1][k].status = "error"
       /\ batchFiles[k].status = "success"
  /\ \E k \in 1..Len(started[1]) : started[1][k].status = "success"

Blank(s) ==
  \A k \in 1..Len(s) : s[k] \in {" ", "\t", "\n", "\r", "\f", "", " "}

ValidationMessages == { Some(MsgNeedText), Some(MsgNeedFile) }

\* C4: handleConvert in text mode with blank input, or in file mode with an
\* empty queue, sets a validation error, starts no call, leaves the run
\* status as it was (not 'processing') and leaves the queue, the active item
\* and the text result unchanged.
C4_ValidationBlocksRun ==
  [][ ( /\ last'.op = "handleConvert"
        /\ \/ inputMode = "text" /\ Blank(inputText)
           \/ inputMode = "file" /\ Len(batchFiles) = 0 )
      => /\ error' \in ValidationMessages
         /\ pc' = "idle"
         /\ status' = status
         /\ status' # "processing"
         /\ batchFiles' = batchFiles
         /\ activeFileId' = activeFileId
         /\ textResult' = textResult ]_vars

\* C4 witness: after an earlier successful text run the input was replaced
\* by a blank and handleConvert answered with the validation error.
C4_Witness ==
  /\ last.op = "handleConvert"
  /\ inputMode = "text"
  /\ inputText = BlankText
  /\ error = Some(MsgNeedText)
  /\ status = "success"
  /\ Truthy(textResult)
  /\ Len(batchFiles) > 0

\* C5 as stated: the active identity is unset or names an item of the queue.
C5_ActiveNamesItem ==
  activeFileId = NULL \/ activeFileId[1] \in ItemIds(batchFiles)

(***************************************************************************)
(* Properties of the admission.                                            *)
(***************************************************************************)
\* This step is a call of processFiles; last'.files are its candidates.
EnqueueStep == last'.op = "processFiles"

Files(items) == [k \in 1..Len(items) |-> items[k].file]

\* The files of the items this step appended to the queue.
Appended ==
  [k \in 1..(Len(batchFiles') - Len(batchFiles)) |->
     batchFiles'[Len(batchFiles) + k].file]

InSeq(x, seq) == \E k \in 1..Len(seq) : seq[k] = x

NotAdmitted(file) == sizeRejects(file) \/ typeRejects(file)

\* The allow-list as the specification reads it: a listed MIME type, or a
\* filename extension among .pdf .docx .doc .csv .txt .md .json .xml .html
\* .yaml .yml.
TypeListed(type) ==
  \E k \in 1..Len(SUPPORTED_FILE_TYPES) : startsWith(type, SUPPORTED_FILE_TYPES[k])

ExtensionListed(name) ==
  /\ InSeq(".", name)
  /\ InSeq(<<".">> \o toLowerCase(splitPop(name)), ACCEPT_EXTENSIONS)

WithinLimit(file) == file.size <= 5 * 1024 * 1024

\* C6: a call of processFiles appends to the queue exactly its candidates
\* that are not rejected, in the order given, as pending items; a rejected
\* candidate does not keep a later one out, and the items already queued
\* stay as and where they are.
C6_AppendsAcceptedInOrder ==
  [][ EnqueueStep =>
        /\ Len(batchFiles') >= Len(batchFiles)
        /\ SubSeq(batchFiles', 1, Len(batchFiles)) = batchFiles
        /\ Appended = SelectSeq(last'.files, LAMBDA f : ~NotAdmitted(f))
        /\ \A k \in (Len(batchFiles) + 1)..Len(batchFiles') :
             batchFiles'[k].status = "idle" ]_vars

\* C6 witness: a second call offered a rejected candidate and then an
\* accepted one; the accepted one stands at the end of the queue, behind the
\* items of the first call.
C6_Witness ==
  /\ last.op = "processFiles"
  /\ last.files = <<CandSh, CandPdf>>
  /\ Len(batchFiles) = 3
  /\ batchFiles[1].file = CandNoTypeMd
  /\ batchFiles[2].file = CandPdfAtLimit
  /\ batchFiles[3].file = CandPdf

\* C7: when a call of processFiles rejects a candidate, no rejected
\* candidate is in the queue after it and the error message is set.
C7_RejectionReported ==
  [][ ( EnqueueStep /\ \E k \in 1..Len(last'.files) : NotAdmitted(last'.files[k]) )
      => /\ IsSet(error')
         /\ Truthy(error'[1])
         /\ \A k \in 1..Len(last'.files) :
              NotAdmitted(last'.files[k]) =>
                ~InSeq(last'.files[k], Files(batchFiles')) ]_vars

\* C7 witness: a call offered an accepted and then a rejected candidate; the
\* accepted one is queued and the message names the rejected one.
C7_Witness ==
  /\ last.op = "processFiles"
  /\ last.files = <<CandPdf, CandSh>>
  /\ error = Some(MsgUnsupported(CandSh))
  /\ batchFiles[Len(batchFiles)].file = CandPdf

\* C8 as stated: a candidate of more than 5 MiB is never queued and the call
\* leaves a size-violation message as the error, whatever the other
\* candidates of the call are; a candidate of exactly 5 MiB of a listed
\* type is queued.
C8_OversizeReported ==
  [][ EnqueueStep =>
        \A k \in 1..Len(last'.files) :
          /\ ~WithinLimit(last'.files[k]) =>
               /\ ~InSeq(last'.files[k], Files(batchFiles'))
               /\ \E m \in 1..Len(last'.files) :
                    /\ ~WithinLimit(last'.files[m])
                    /\ error' = Some(MsgTooLarge(last'.files[m]))
          /\ (last'.files[k].size = 5 * 1024 * 1024
                /\ TypeListed(last'.files[k].type)) =>
               InSeq(last'.files[k], Appended) ]_vars

\* C9 as stated (for a declared type that is not empty): a candidate within
\* the size limit whose type is not listed and whose extension is not
\* listed is not queued.
C9_UnlistedRejected ==
  [][ EnqueueStep =>
        \A k \in 1..Len(last'.files) :
          ( /\ WithinLimit(last'.files[k])
            /\ last'.files[k].type # <<>>
            /\ ~TypeListed(last'.files[k].type)
            /\ ~ExtensionListed(last'.files[k].name) )
          => ~InSeq(last'.files[k], Files(batchFiles')) ]_vars

\* C10 as stated: for a candidate without declared type (within the size
\* limit) the extension decides: it is queued exactly when its extension is
\* listed.
C10_ExtensionDecides ==
  [][ EnqueueStep =>
        \A k \in 1..Len(last'.files) :
          (last'.files[k].type = <<>> /\ WithinLimit(last'.files[k])) =>
            (InSeq(last'.files[k], Appended)
               <=> ExtensionListed(last'.files[k].name)) ]_vars

\* C10 amended: a candidate without declared type, within the size limit,
\* is queued whatever its extension: the type rule never rejects it.
C10_EmptyTypeAdmitted ==
  [][ EnqueueStep =>
        \A k \in 1..Len(last'.files) :
          (last'.files[k].type = <<>> /\ WithinLimit(last'.files[k])) =>
            InSeq(last'.files[k], Appended) ]_vars

\* C10 witness: a candidate without declared type and with the unlisted
\* extension sh was offered and is queued.
C10_Witness ==
  /\ last.op = "processFiles"
  /\ last.files = <<CandNoTypeSh>>
  /\ Len(batchFiles) > 0
  /\ batchFiles[Len(batchFiles)].file = CandNoTypeSh
  /\ ~ExtensionListed(CandNoTypeSh.name)

(***************************************************************************)
(* The contract of removeFile.                                             *)
(***************************************************************************)
RemoveStep == last'.op = "removeFile"

Listed(id) == \E k \in 1..Len(batchFiles) : batchFiles[k].id = id

\* The queue without its k-th item.
Without(items, k) == SubSeq(items, 1, k - 1) \o SubSeq(items, k + 1, Len(items))

\* C11: remove(id) deletes exactly the item with that identity and keeps the
\* other items in order; the active identity moves to the first remaining
\* item (or is cleared) when the removed item was the active one and is
\* unchanged otherwise; removing an absent identity changes nothing.  The
\* remove button (line 378) belongs to a listed item, so every removeFile
\* step removes a listed identity; for an absent identity the updater of
\* lines 113-127 is evaluated on the state: it gives the queue back as it
\* is, and the active identity as it is unless that identity is the one
\* asked for.
C11_RemoveContract ==
  [][ /\ RemoveStep =>
           LET id == last'.id IN
           /\ Listed(id)
           /\ \E k \in 1..Len(batchFiles) :
                batchFiles[k].id = id /\ batchFiles' = Without(batchFiles, k)
           /\ activeFileId = Some(id) =>
                activeFileId' = IF Len(batchFiles') > 0
                                  THEN Some(batchFiles'[1].id) ELSE NULL
           /\ activeFileId # Some(id) => activeFileId' = activeFileId
      /\ \A id \in Draws \ ItemIds(batchFiles) :
           /\ removeItems(id, batchFiles) = batchFiles
           /\ activeFileId # Some(id) =>
                removeActive(id, activeFileId, batchFiles) = activeFileId ]_vars

\* C11 witness: the first item, the active one, was removed from a queue of
\* two; the item that remains is the active one.
C11_Witness ==
  /\ last.op = "removeFile"
  /\ Len(batchFiles) = 1
  /\ last.id \notin ItemIds(batchFiles)
  /\ last.id < batchFiles[1].id
  /\ activeFileId = Some(batchFiles[1].id)
  /\ pc = "idle"

(***************************************************************************)
(* The active identity after processFiles.                                 *)
(***************************************************************************)
\* C12: after a call of processFiles, the active identity is the first item
\* accepted by that call if it was unset and a candidate was accepted; it is
\* unchanged if it was set already or no candidate was accepted.
C12_EnqueueActive ==
  [][ EnqueueStep =>
        LET accepted == SelectSeq(last'.files, LAMBDA f : ~NotAdmitted(f)) IN
        IF activeFileId = NULL /\ Len(accepted) > 0
          THEN /\ Len(batchFiles') > Len(batchFiles)
               /\ activeFileId' = Some(batchFiles'[Len(batchFiles) + 1].id)
               /\ batchFiles'[Len(batchFiles) + 1].file = accepted[1]
          ELSE activeFileId' = activeFileId ]_vars

\* C12 witness: a call that accepted its one candidate while the first item
\* of an earlier call was active; that item is still the active one.
C12_Witness ==
  /\ last.op = "processFiles"
  /\ last.files = <<CandPdf>>
  /\ Len(batchFiles) = 2
  /\ batchFiles[2].file = CandPdf
  /\ activeFileId = Some(batchFiles[1].id)

\* A call that rejected its first candidate and accepted its second while no
\* item was active: the accepted one is the active item.
C12_WitnessUnset ==
  /\ last.op = "processFiles"
  /\ last.files = <<CandSh, CandPdf>>
  /\ Len(batchFiles) = 1
  /\ activeFileId = Some(batchFiles[1].id)

(***************************************************************************)
(* The fields of a queue item.                                             *)
(***************************************************************************)
\* C13: in every reachable state, an item has a result only in 'success'
\* and a failure message only in 'error'; an item in 'success' has a result
\* and no message, an item in 'error' a message and no result, and an item
\* in 'idle' or 'processing' has neither.
C13_ItemFields ==
  \A k \in 1..Len(batchFiles) :
    LET f == batchFiles[k] IN
    /\ IsSet(f.result) => f.status = "success"
    /\ IsSet(f.error) => f.status = "error"
    /\ f.status = "success" => (IsSet(f.result) /\ ~IsSet(f.error))
    /\ f.status = "error" => (IsSet(f.error) /\ ~IsSet(f.result))
    /\ f.status \in {"idle", "processing"} => (~IsSet(f.result) /\ ~IsSet(f.error))

\* C13 witness: a re-run has reached an item that an earlier run left in
\* 'error', beside an item in 'success'; the item is in 'processing' now.
C13_Witness ==
  /\ IsSet(started)
  /\ Len(batchFiles) = Len(started[1])
  /\ \E j, k \in 1..Len(batchFiles) :
       /\ batchFiles[j].status = "success"
       /\ started[1][k].status = "error"
       /\ batchFiles[k].id = started[1][k].id
       /\ batchFiles[k].status = "processing"

(***************************************************************************)
(* The external calls in flight.                                           *)
(***************************************************************************)
\* A call of convertContent is in flight: an invocation of handleConvert is
\* suspended at its await.
CallInFlight == pc # "idle"

Position(items, id) == CHOOSE k \in 1..Len(items) : items[k].id = id

\* C14: at most one external call is in flight at any time: the run status
\* is 'processing' as long as a call is in flight, so that a click on convert
\* starts a call only when none is in flight, whatever the input mode is
\* switched to meanwhile; within a batch run the next call is issued by the
\* step that records the outcome of the previous one, for an item that
\* stands later in the queue order.
C14_OneCallInFlight ==
  [][ /\ CallInFlight' => status' = "processing"
      /\ (last'.op = "handleConvert" /\ CallInFlight') => ~CallInFlight
      /\ (last'.op = "settle" /\ pc = "file" /\ CallInFlight') =>
           LET prev == filesToProcess[i].id
               next == filesToProcess'[i'].id IN
           /\ filesToProcess' = filesToProcess
           /\ i' > i
           /\ \A m \in 1..Len(batchFiles') :
                batchFiles'[m].id = prev =>
                  batchFiles'[m].status \in {"success", "error"}
           /\ (prev \in ItemIds(batchFiles') /\ next \in ItemIds(batchFiles')) =>
                Position(batchFiles', prev) < Position(batchFiles', next)
      /\ (last'.op = "settle" /\ pc = "text") => ~CallInFlight' ]_vars

\* C14 witness: the call of the second item of a batch run is in flight, the
\* first item's outcome is recorded, and the user has switched to text mode
\* during the run.
C14_Witness ==
  /\ pc = "file"
  /\ i = 2
  /\ inputMode = "text"
  /\ status = "processing"
  /\ Len(batchFiles) >= 2
  /\ batchFiles[1].status \in {"success", "error"}
  /\ batchFiles[2].status = "processing"

(***************************************************************************)
(* The text run.                                                           *)
(***************************************************************************)
\* C15: in text mode a click on convert with non-blank input issues one
\* external call, for that input; when the call settles no further call is
\* issued, and the state is 'success' with the returned text as the text
\* result, or 'error' with a message.
C15_TextRun ==
  [][ /\ (last'.op = "handleConvert" /\ inputMode = "text" /\ ~Blank(inputText)) =>
           /\ pc' = "text"
           /\ status' = "processing"
           /\ closure'[1].inputText = inputText
      /\ (last'.op = "settle" /\ pc = "text") =>
           /\ pc' = "idle"
           /\ Len(outcomes') = 1
           /\ IF outcomes'[1].ok
                THEN status' = "success" /\ textResult' = outcomes'[1].value
                ELSE /\ status' = "error"
                     /\ IsSet(error')
                     /\ Truthy(error'[1]) ]_vars

\* C15 witness: the call of a text run failed; the state is 'error' with the
\* message of the failure.
C15_Witness ==
  /\ last.op = "settle"
  /\ last.id = -1
  /\ outcomes = << Rejected(<<"b","o","o","m">>) >>
  /\ status = "error"
  /\ error = Some(<<"b","o","o","m">>)

\* The call of a text run succeeded; the text result is the returned text.
C15_WitnessSuccess ==
  /\ last.op = "settle"
  /\ last.id = -1
  /\ outcomes = << Resolved(<<"r","1">>) >>
  /\ status = "success"
  /\ textResult = <<"r","1">>

(***************************************************************************)
(* Export: getCurrentResult and handleDownload (lines 209-272).            *)
(***************************************************************************)
TARGET_XML == "XML"

TARGET_MARKDOWN == "Markdown"

TARGET_HTML == "HTML"

TARGET_LATEX == "LaTeX"

TARGET_SQL == "SQL"

TARGET_YAML == "YAML"

\* 'DOCX (Word文档)'
TARGET_DOCX == "DOCX (Word)"

\* '纯文本'
TARGET_PLAIN_TEXT == "Plain text"

\* 'Mermaid 图表'
TARGET_MERMAID == "Mermaid chart"

TargetFormat ==
  { TARGET_JSON, TARGET_XML, TARGET_CSV, TARGET_MARKDOWN, TARGET_HTML,
    TARGET_LATEX, TARGET_SQL, TARGET_YAML, TARGET_DOCX, TARGET_PLAIN_TEXT,
    TARGET_MERMAID }

TextPlain == <<"t","e","x","t","/","p","l","a","i","n">>

Export(extension, mimeType) == [extension |-> extension, mimeType |-> mimeType]

\* Mutant: the switch has no default, an unlisted target has no extension.
exportMapping_noDefault(format) ==
  CASE format = TARGET_JSON -> Export(<<"j","s","o","n">>, <<"a","p","p","l","i","c","a","t","i","o","n","/","j","s","o","n">>)
    [] format = TARGET_CSV -> Export(<<"c","s","v">>, <<"t","e","x","t","/","c","s","v">>)
    [] OTHER -> Export(<<>>, <<>>)

\* lines 230-245: the defaults and the switch over state.targetFormat
exportMapping(format) ==
  CASE format = TARGET_JSON -> Export(<<"j","s","o","n">>, <<"a","p","p","l","i","c","a","t","i","o","n","/","j","s","o","n">>)
    [] format = TARGET_CSV -> Export(<<"c","s","v">>, <<"t","e","x","t","/","c","s","v">>)
    [] format = TARGET_HTML -> Export(<<"h","t","m","l">>, <<"t","e","x","t","/","h","t","m","l">>)
    [] format = TARGET_MARKDOWN -> Export(<<"m","d">>, <<"t","e","x","t","/","m","a","r","k","d","o","w","n">>)
    [] format = TARGET_XML -> Export(<<"x","m","l">>, <<"t","e","x","t","/","x","m","l">>)
    [] format = TARGET_SQL -> Export(<<"s","q","l">>, TextPlain)
    [] format = TARGET_YAML -> Export(<<"y","a","m","l">>, <<"t","e","x","t","/","y","a","m","l">>)
    [] format = TARGET_DOCX -> Export(<<"d","o","c">>, <<"a","p","p","l","i","c","a","t","i","o","n","/","m","s","w","o","r","d">>)
    [] OTHER -> Export(<<"t","x","t">>, TextPlain)

\* state.batchFiles.find(f => f.id === id): the first such item, if any
find(items, id) ==
  IF \E k \in 1..Len(items) : items[k].id = id
    THEN Some(items[CHOOSE k \in 1..Len(items) :
                      /\ items[k].id = id
                      /\ \A m \in 1..(k - 1) : items[m].id # id])
    ELSE NULL

\* Mutant: no result is displayed while the status is 'error'.
getCurrentResult_hideOnError ==
  IF status = "error" THEN <<>>
  ELSE IF inputMode = "text" THEN textResult
  ELSE <<>>

\* lines 209-216
getCurrentResult ==
  IF inputMode = "text" THEN textResult
  ELSE IF TruthyId(activeFileId) THEN
    LET file == find(batchFiles, activeFileId[1]) IN
    IF IsSet(file) THEN OrElse(file[1].result, Some(<<>>))[1] ELSE <<>>
  ELSE <<>>

\* String.prototype.lastIndexOf for a one-character pattern, 0-based, -1
\* when the character does not occur.
lastIndexOf(s, c) ==
  IF \E k \in 1..Len(s) : s[k] = c
    THEN (CHOOSE k \in 1..Len(s) : s[k] = c /\ \A m \in (k + 1)..Len(s) : s[m] # c) - 1
    ELSE -1

\* s.substring(0, end): a negative end counts as 0.
substring0(s, end) == SubSeq(s, 1, IF end < 0 THEN 0 ELSE end)

Letters ==
  { "a","b","c","d","e","f","g","h","i","j","k","l","m","n","o","p","q","r",
    "s","t","u","v","w","x","y","z","A","B","C","D","E","F","G","H","I","J",
    "K","L","M","N","O","P","Q","R","S","T","U","V","W","X","Y","Z" }

Digits == { "0","1","2","3","4","5","6","7","8","9" }

\* filename.replace(/[^a-z0-9一-龥_\-\s]/gi, '_') (line 261); the
\* strings of the model have no character of the range 一-龥.
safeName(filename) ==
  [k \in 1..Len(filename) |->
     IF filename[k] \in Letters \cup Digits \cup {"_", "-"} \/ IsSpace(filename[k])
       THEN filename[k] ELSE "_"]

\* lines 247-259
downloadFilename ==
  IF inputMode = "text"
    THEN OrElse(Some(trim(customFilename)),
                Some(<<"t","e","x","t","-","c","o","n","v","e","r","t">>))[1]
  ELSE IF TruthyId(activeFileId) /\ IsSet(find(batchFiles, activeFileId[1]))
    THEN LET name == find(batchFiles, activeFileId[1])[1].file.name
             originalName ==
               OrElse(Some(substring0(name, lastIndexOf(name, "."))), Some(name))[1]
         IN originalName \o <<"_","c","o","n","v","e","r","t","e","d">>
  ELSE <<"c","o","n","v","e","r","t","-","r","e","s","u","l","t">>

\* onChange of the filename input (line 453), disabled in file mode (line 447).
setCustomFilename(text) ==
  /\ inputMode = "text"
  /\ customFilename' = text
  /\ UNCHANGED << download, random, call >>
  /\ last' = Op("setCustomFilename", <<>>, -1)
  /\ started' = NULL
  /\ outcomes' = <<>>
  /\ UNCHANGED << inputMode, inputText, batchFiles, activeFileId, targetFormat,
                  status, textResult, error, additionalInstructions, pc,
                  filesToProcess, i, closure, idCount >>

\* Mutant: the export is that of the target of construction.
exportTarget_first == TARGET_JSON

\* switch (state.targetFormat) (line 233): the target of the state in which
\* the download is asked for.
exportTarget == targetFormat

\* handleDownload (lines 226-272); its button is disabled while there is no
\* displayed result (line 521), and the handler returns at once then.
handleDownload ==
  LET content == getCurrentResult
      export  == exportMapping(exportTarget)
  IN
  /\ Truthy(content)
  /\ download' = Some([download |-> safeName(downloadFilename) \o <<".">> \o export.extension,
                       type |-> export.mimeType,
                       content |-> content])
  /\ UNCHANGED << customFilename, random, call >>
  /\ last' = Op("handleDownload", <<>>, -1)
  /\ started' = NULL
  /\ outcomes' = <<>>
  /\ UNCHANGED << inputMode, inputText, batchFiles, activeFileId, targetFormat,
                  status, textResult, error, additionalInstructions, pc,
                  filesToProcess, i, closure, idCount >>

\* No name, and a name with white space around and inside it and a character
\* line 261 replaces.
FilenameChoices == { <<>>, <<"\f",VT,"a",VT,"\r",".","b",NBSP," ">> }

Next ==
  \/ \E mode \in {"text", "file"} : handleInputModeChange(mode)
  \/ \E text \in TextChoices : setInputText(text)
  \/ \E files \in UploadChoices : processFiles(files)
  \/ \E id \in ItemIds(batchFiles) : removeFile(id)
  \/ \E id \in ItemIds(batchFiles) : selectFile(id)
  \/ \E format \in TargetChoices : setTargetFormat(format)
  \/ \E text \in InstructionChoices : setAdditionalInstructions(text)
  \/ handleConvert
  \/ \E raw \in RawOutcomes : settleText(raw)
  \/ \E raw \in RawOutcomes : settleFile(raw)
  \/ \E text \in FilenameChoices : setCustomFilename(text)
  \/ handleDownload

\* Every operation of the component.
Spec == Init /\ [][Next]_vars

\* Conversions that succeed, of a text and of a queue of one file, under
\* every target format, and the export of their results.
NextExport ==
  \/ \E mode \in {"text", "file"} : handleInputModeChange(mode)
  \/ setInputText(<<"a">>)
  \/ setCustomFilename(<<"\f",VT,"a",VT,"\r",".","b",NBSP," ">>)
  \/ Len(batchFiles) = 0 /\ processFiles(<<FilePdf>>)
  \/ \E format \in TargetFormat : setTargetFormat(format)
  \/ handleConvert
  \/ settleText(Response(Some(<<"r","1">>)))
  \/ settleFile(Response(Some(<<"r","1">>)))
  \/ handleDownload

SpecExport == Init /\ [][NextExport]_vars

Exported(extension, mimeType) ==
  /\ splitPop(download'[1].download) = extension
  /\ download'[1].type = mimeType

\* C16: the export of a result carries the extension and content-type of
\* the target format selected: json application/json for JSON, csv text/csv
\* for CSV, html text/html for HTML, md text/markdown for Markdown, xml
\* text/xml for XML, sql text/plain for SQL, yaml text/yaml for YAML, doc
\* application/msword for DOCX, and txt text/plain for each of LaTeX, plain
\* text and Mermaid.
C16_ExportMapping ==
  [][ last'.op = "handleDownload" =>
        /\ IsSet(download')
        /\ targetFormat \in TargetFormat
        /\ targetFormat = "JSON" => Exported(<<"j","s","o","n">>, <<"a","p","p","l","i","c","a","t","i","o","n","/","j","s","o","n">>)
        /\ targetFormat = "CSV" => Exported(<<"c","s","v">>, <<"t","e","x","t","/","c","s","v">>)
        /\ targetFormat = "HTML" => Exported(<<"h","t","m","l">>, <<"t","e","x","t","/","h","t","m","l">>)
        /\ targetFormat = "Markdown" => Exported(<<"m","d">>, <<"t","e","x","t","/","m","a","r","k","d","o","w","n">>)
        /\ targetFormat = "XML" => Exported(<<"x","m","l">>, <<"t","e","x","t","/","x","m","l">>)
        /\ targetFormat = "SQL" => Exported(<<"s","q","l">>, <<"t","e","x","t","/","p","l","a","i","n">>)
        /\ targetFormat = "YAML" => Exported(<<"y","a","m","l">>, <<"t","e","x","t","/","y","a","m","l">>)
        /\ targetFormat = TARGET_DOCX => Exported(<<"d","o","c">>, <<"a","p","p","l","i","c","a","t","i","o","n","/","m","s","w","o","r","d">>)
        /\ targetFormat \in {"LaTeX", TARGET_PLAIN_TEXT, TARGET_MERMAID} =>
             Exported(<<"t","x","t">>, <<"t","e","x","t","/","p","l","a","i","n">>) ]_vars

\* C16 witness: a result converted in a batch was exported with the target
\* Mermaid, which the switch does not list: the file is a txt of type
\* text/plain.
C16_Witness ==
  /\ last.op = "handleDownload"
  /\ inputMode = "file"
  /\ targetFormat = TARGET_MERMAID
  /\ IsSet(download)
  /\ download[1].download = <<"a","_","c","o","n","v","e","r","t","e","d",".","t","x","t">>
  /\ download[1].type = TextPlain

(***************************************************************************)
(* The field setters.                                                      *)
(***************************************************************************)
\* Validation errors and runs, with the target format, the instructions
\* and the input text edited at any time.
NextFields ==
  \/ \E mode \in {"text", "file"} : handleInputModeChange(mode)
  \/ \E text \in TextChoices : setInputText(text)
  \/ \E format \in TargetChoices : setTargetFormat(format)
  \/ \E text \in InstructionChoices : setAdditionalInstructions(text)
  \/ Len(batchFiles) = 0 /\ processFiles(<<FilePdf>>)
  \/ handleConvert
  \/ \E raw \in RawOutcomes : settleText(raw)
  \/ \E raw \in RawOutcomes : settleFile(raw)

SpecFields == Init /\ [][NextFields]_vars

\* C17: each of setTarget, setInstructions and setInputText replaces its
\* own field only and leaves the error unset; the queue, the active
\* identity, the statuses and the results are unchanged.
C17_SettersClearError ==
  [][ last'.op \in {"setTargetFormat", "setAdditionalInstructions", "setInputText"} =>
        /\ error' = NULL
        /\ UNCHANGED << inputMode, batchFiles, activeFileId, status, textResult,
                        customFilename >>
        /\ last'.op # "setTargetFormat" => UNCHANGED targetFormat
        /\ last'.op # "setAdditionalInstructions" => UNCHANGED additionalInstructions
        /\ last'.op # "setInputText" => UNCHANGED inputText ]_vars

\* The frame of the three setters, and the error cleared by setInputText.
C17_SettersFrame ==
  [][ last'.op \in {"setTargetFormat", "setAdditionalInstructions", "setInputText"} =>
        /\ IF last'.op = "setInputText" THEN error' = NULL ELSE UNCHANGED error
        /\ UNCHANGED << inputMode, batchFiles, activeFileId, status, textResult,
                        customFilename >>
        /\ last'.op # "setTargetFormat" => UNCHANGED targetFormat
        /\ last'.op # "setAdditionalInstructions" => UNCHANGED additionalInstructions
        /\ last'.op # "setInputText" => UNCHANGED inputText ]_vars

(***************************************************************************)
(* Termination of a batch run.                                             *)
(***************************************************************************)
\* The batch queue, every external call settling at last: the continuation
\* of the await of line 179 runs once its promise settles.
SpecBatchLive ==
  SpecBatch /\ WF_vars(\E raw \in RawOutcomes : settleFile(raw))

\* The items of the snapshot the run has issued a call for.
Attempted ==
  { filesToProcess[k].id : k \in { m \in 1..i : ~skipItem(filesToProcess[m]) } }

\* C18: if every external call settles at last, a started batch run
\* finishes with the run status 'idle', whatever uploads, removals and
\* selections happen meanwhile, and when it finishes every item it
\* attempted that is still in the queue is in 'success' or 'error'.
C18_RunFinishes ==
  /\ [](pc = "file" => <>(pc = "idle" /\ status = "idle"))
  /\ [][ (pc = "file" /\ pc' = "idle") =>
           /\ status' = "idle"
           /\ \A k \in 1..Len(batchFiles') :
                batchFiles'[k].id \in Attempted =>
                  batchFiles'[k].status \in {"success", "error"} ]_vars

\* C18 witness: a run during which the user acted has finished; the queue
\* holds an item that succeeded and one that failed.
C18_Witness ==
  /\ last.op = "settle"
  /\ pc = "idle"
  /\ status = "idle"
  /\ started = NULL
  /\ \E j, k \in 1..Len(batchFiles) :
       batchFiles[j].status = "success" /\ batchFiles[k].status = "error"

(***************************************************************************)
(* The identities of the items.                                            *)
(***************************************************************************)
\* Math.random() returning one value at every draw.
SameDraws == [n \in Draws |-> 1]

\* Math.random() returning a value again at every second draw.
CycleDraws == [n \in Draws |-> ((n - 1) % 2) + 1]

\* Math.random() returning 0 at the first draw: the first item gets the
\* empty identity, the later ones get identities that differ.
ZeroDraws == [n \in Draws |-> IF n = 1 THEN EmptyId ELSE n]

\* The state after construction, under draws that may coincide: nothing in
\* generateId (line 49) or processFiles compares a draw with the identities
\* given before.
InitIds ==
  /\ inputMode = "text"
  /\ inputText = <<>>
  /\ batchFiles = <<>>
  /\ activeFileId = NULL
  /\ targetFormat = TARGET_JSON
  /\ status = "idle"
  /\ textResult = <<>>
  /\ error = NULL
  /\ additionalInstructions = <<>>
  /\ customFilename = <<>>
  /\ download = NULL
  /\ random \in { FreshDraws, SameDraws, CycleDraws, ZeroDraws }
  /\ call = NULL
  /\ pc = "idle"
  /\ filesToProcess = <<>>
  /\ i = 0
  /\ closure = NULL
  /\ idCount = 0
  /\ last = Op("init", <<>>, -1)
  /\ started = NULL
  /\ outcomes = <<>>

\* The batch queue under draws of Math.random() that may coincide.
SpecIds == InitIds /\ [][NextBatch]_vars

\* The calls of processFiles under the same draws.
SpecAdmitIds == InitIds /\ [][NextAdmit]_vars

\* A call accepted its candidate while the item of the empty identity was
\* the active one, and the accepted item is the active one now.
EmptyIdReplaced ==
  /\ last.op = "processFiles"
  /\ Len(batchFiles) = 2
  /\ batchFiles[1].id = EmptyId
  /\ activeFileId = Some(batchFiles[2].id)

\* C19: the identities of the items of the queue are pairwise distinct in
\* every reachable state.
C19_IdsDistinct ==
  \A j, k \in 1..Len(batchFiles) :
    j # k => batchFiles[j].id # batchFiles[k].id

\* The identities given so far.
Assigned == { random[n] : n \in 1..idCount }

\* An identity is given to one item only, also after that item was removed,
\* and an item keeps its identity.
C19_NoReuse ==
  [][ IF last'.op = "processFiles"
        THEN /\ Len(batchFiles') >= Len(batchFiles)
             /\ \A k \in 1..Len(batchFiles') :
                  IF k <= Len(batchFiles)
                    THEN batchFiles'[k].id = batchFiles[k].id
                    ELSE batchFiles'[k].id \notin Assigned
      ELSE IF last'.op = "removeFile"
        THEN ItemIds(batchFiles') \subseteq ItemIds(batchFiles)
      ELSE /\ Len(batchFiles') = Len(batchFiles)
           /\ \A k \in 1..Len(batchFiles) : batchFiles'[k].id = batchFiles[k].id ]_vars

(***************************************************************************)
(* The arguments of the calls of one batch run.                            *)
(***************************************************************************)
\* Batch runs with the target format and the instructions changed at any
\* time.
NextUniform ==
  \/ \E mode \in {"text", "file"} : handleInputModeChange(mode)
  \/ \E files \in UploadChoices : processFiles(files)
  \/ \E format \in TargetChoices : setTargetFormat(format)
  \/ \E text \in InstructionChoices : setAdditionalInstructions(text)
  \/ handleConvert
  \/ \E raw \in RawOutcomes : settleFile(raw)

SpecUniform == Init /\ [][NextUniform]_vars

\* C20: the first call of a batch run is made with the target format and
\* the instructions of the state in which the run starts, and every later
\* call of the run with those of the call before it, whatever the target
\* format and the instructions have been changed to meanwhile.
C20_RunArguments ==
  [][ /\ (last'.op = "handleConvert" /\ pc' = "file") =>
           /\ IsSet(call')
           /\ call'[1].targetFormat = targetFormat
           /\ call'[1].instructions = additionalInstructions
      /\ (last'.op = "settle" /\ pc = "file" /\ pc' = "file") =>
           /\ IsSet(call')
           /\ call'[1].targetFormat = call[1].targetFormat
           /\ call'[1].instructions = call[1].instructions
           /\ call'[1].input = filesToProcess[i'].file ]_vars

\* C20 witness: the second call of a run has just been issued, after the
\* target format and the instructions were changed during the first call;
\* it carries the values of the start of the run.
C20_Witness ==
  /\ last.op = "settle"
  /\ pc = "file"
  /\ i = 2
  /\ targetFormat = TARGET_CSV
  /\ additionalInstructions = <<"x">>
  /\ call = Some([input |-> FilePdf, targetFormat |-> TARGET_JSON,
                   instructions |-> <<>>])

(***************************************************************************)
(* The failure of an item of a batch run.                                  *)
(***************************************************************************)
\* This step is the continuation of a batch call that failed: it leaves the
\* item of the call in 'error'.
FailureStep ==
  /\ last'.op = "settle"
  /\ pc = "file"
  /\ \E k \in 1..Len(batchFiles') :
       /\ batchFiles'[k].id = filesToProcess[i].id
       /\ batchFiles'[k].status = "error"

\* C21: the failure of an item of a batch run changes the record of that
\* item only: the global error message is unchanged, the run status is
\* unchanged (the same step sets it to 'idle' only when the loop has ended),
\* and every other item keeps its status, result and message, but for the
\* item the loop goes on with, which the same step puts in 'processing'
\* with its result unchanged.
C21_FailureIsLocal ==
  [][ FailureStep =>
        /\ error' = error
        /\ textResult' = textResult
        /\ IF pc' = "file" THEN status' = status ELSE status' = "idle"
        /\ Len(batchFiles') = Len(batchFiles)
        /\ \A k \in 1..Len(batchFiles) :
             IF batchFiles[k].id = filesToProcess[i].id
               THEN /\ batchFiles'[k].status = "error"
                    /\ IsSet(batchFiles'[k].error)
                    /\ batchFiles'[k].result = batchFiles[k].result
                    /\ batchFiles'[k].file = batchFiles[k].file
             ELSE IF pc' = "file" /\ batchFiles[k].id = filesToProcess'[i'].id
               THEN /\ batchFiles'[k].status = "processing"
                    /\ batchFiles'[k].result = batchFiles[k].result
                    /\ batchFiles'[k].file = batchFiles[k].file
             ELSE batchFiles'[k] = batchFiles[k] ]_vars

\* C21 witness: the second of three items has just failed; the first is
\* still in 'success' with its result, the third is the one in 'processing',
\* no global error is set and the run status is 'processing'.
C21_Witness ==
  /\ last.op = "settle"
  /\ pc = "file"
  /\ Len(batchFiles) = 3
  /\ last.id = batchFiles[2].id
  /\ batchFiles[1].status = "success"
  /\ IsSet(batchFiles[1].result)
  /\ batchFiles[2].status = "error"
  /\ batchFiles[3].status = "processing"
  /\ error = NULL
  /\ status = "processing"

(***************************************************************************)
(* The messages of a failed call.                                          *)
(***************************************************************************)
MsgBoom == <<"b","o","o","m">>

MsgRpc == <<"R","p","c"," ","f","a","i","l","e","d",":"," ","x">>

Msg413 == <<"H","T","T","P"," ","4","1","3">>

MsgKey == <<"b","a","d"," ","A","P","I","_","K","E","Y">>

MsgKeyRpc == <<"A","P","I","_","K","E","Y"," ","R","p","c"," ","f","a","i","l","e","d">>

\* What the external call can throw: errors whose message holds one of the
\* patterns, both, or none; a value whose toString() alone holds 413; a
\* value without message; an error with an empty message.
ErrorOutcomes ==
  { ErrorOf(MsgBoom), ErrorOf(MsgRpc), ErrorOf(Msg413), ErrorOf(MsgKey),
    ErrorOf(MsgKeyRpc),
    Thrown(Some(<<"b","i","g">>), <<"E","4","1","3",":"," ","b","i","g">>),
    Thrown(NULL, <<"[","o","b","j","e","c","t","]">>),
    ErrorOf(<<>>) }

\* Runs of a text and of a queue of one file whose call fails in each way,
\* or succeeds.
NextErrors ==
  \/ \E mode \in {"text", "file"} : handleInputModeChange(mode)
  \/ setInputText(<<"a">>)
  \/ Len(batchFiles) = 0 /\ processFiles(<<FilePdf>>)
  \/ handleConvert
  \/ \E raw \in ErrorOutcomes \cup {Response(Some(<<"r","1">>))} : settleText(raw)
  \/ \E raw \in ErrorOutcomes \cup {Response(Some(<<"r","1">>))} : settleFile(raw)

SpecErrors == Init /\ [][NextErrors]_vars

\* The text of the error holds the pattern: its message, or its toString().
Matches(raw, p) ==
  \/ IsSet(raw.message) /\ includes(raw.message[1], p)
  \/ includes(raw.string, p)

\* After this settlement the message m is the text-mode error, or the
\* message of the item of the call.
Reaches(m) ==
  IF pc = "text"
    THEN status' = "error" /\ error' = Some(m)
    ELSE \E k \in 1..Len(batchFiles') :
           /\ batchFiles'[k].id = filesToProcess[i].id
           /\ batchFiles'[k].status = "error"
           /\ batchFiles'[k].error = Some(m)

\* C22: a failed call whose error holds 'Rpc failed' or '413' gives the
\* transport-failure message; one that holds 'API_KEY' and neither of them
\* gives the auth-failure message; one that holds none of the patterns and
\* has a non-empty message gives that message unchanged, to the item of the
\* call or to the text-mode error.
C22_ErrorMessages ==
  [][ (last'.op = "settle" /\ ~last'.files[1].ok) =>
        LET raw == last'.files[1] IN
        /\ (Matches(raw, <<"R","p","c"," ","f","a","i","l","e","d">>)
              \/ Matches(raw, <<"4","1","3">>)) => Reaches(MsgTransport)
        /\ (/\ Matches(raw, <<"A","P","I","_","K","E","Y">>)
            /\ ~Matches(raw, <<"R","p","c"," ","f","a","i","l","e","d">>)
            /\ ~Matches(raw, <<"4","1","3">>)) => Reaches(MsgAuth)
        /\ (/\ ~Matches(raw, <<"A","P","I","_","K","E","Y">>)
            /\ ~Matches(raw, <<"R","p","c"," ","f","a","i","l","e","d">>)
            /\ ~Matches(raw, <<"4","1","3">>)
            /\ IsSet(raw.message) /\ Len(raw.message[1]) > 0) =>
             Reaches(raw.message[1]) ]_vars

\* C22 witness: the call of the item failed with an error of none of the
\* patterns; the item carries the error's own message.
C22_Witness ==
  /\ last.op = "settle"
  /\ last.files = << ErrorOf(MsgBoom) >>
  /\ Len(batchFiles) = 1
  /\ batchFiles[1].status = "error"
  /\ batchFiles[1].error = Some(MsgBoom)

\* The call of a text run failed with an error that holds 'API_KEY' and
\* 'Rpc failed': the text-mode error is the transport-failure message.
C22_WitnessBoth ==
  /\ last.op = "settle"
  /\ last.files = << ErrorOf(MsgKeyRpc) >>
  /\ status = "error"
  /\ error = Some(MsgTransport)

(***************************************************************************)
(* Items enqueued during a batch run.                                      *)
(***************************************************************************)
\* The item is not one of the queue the run started with.
EnqueuedSince(item) == item.id \notin ItemIds(filesToProcess)

\* C23: an item enqueued while a batch run is in flight is not attempted by
\* that run: every step of or during the run, the one that ends it
\* included, leaves such an item in 'idle', and the run issues no call for
\* it.
C23_LateItemsWait ==
  [][ pc = "file" =>
        /\ \A k \in 1..Len(batchFiles') :
             EnqueuedSince(batchFiles'[k]) => batchFiles'[k].status = "idle"
        /\ (last'.op = "settle" /\ pc' = "file") =>
             /\ activeFileId'[1] \in ItemIds(filesToProcess)
             /\ \E k \in 1..Len(filesToProcess) :
                  call'[1].input = filesToProcess[k].file ]_vars

\* C23 witness: a run has ended; behind the items it has settled the queue
\* holds an item that was enqueued during the run, in 'idle'.
C23_Witness ==
  /\ last.op = "settle"
  /\ pc = "idle"
  /\ status = "idle"
  /\ Len(batchFiles) >= 2
  /\ batchFiles[1].status \in {"success", "error"}
  /\ batchFiles[Len(batchFiles)].status = "idle"

(***************************************************************************)
(* The calls of a batch run and the removals during it.                    *)
(***************************************************************************)
\* The items of the snapshot from index a to index b need no call: they
\* were in 'success' when the run started.
NoCallNeeded(files, a, b) == \A m \in a..b : files[m].status = "success"

\* C24: a batch run issues its calls for the items of the queue of its
\* start that were not in 'success', one each, in the order of that queue:
\* the start issues the call of the first such item and every settlement
\* the call of the next one, or ends the run when there is none, whether or
\* not the items are still in the queue; the settlement of the call of an
\* item that was removed meanwhile changes no item, and no settlement puts
\* an item into the queue.
C24_OneCallPerSnapshotItem ==
  [][ /\ (last'.op = "handleConvert" /\ pc' = "file") =>
           /\ filesToProcess' = batchFiles
           /\ filesToProcess'[i'].status # "success"
           /\ NoCallNeeded(filesToProcess', 1, i' - 1)
           /\ call'[1].input = filesToProcess'[i'].file
      /\ (last'.op = "settle" /\ pc = "file") =>
           /\ IF pc' = "file"
                THEN /\ filesToProcess' = filesToProcess
                     /\ i' > i
                     /\ filesToProcess[i'].status # "success"
                     /\ NoCallNeeded(filesToProcess, i + 1, i' - 1)
                     /\ call'[1].input = filesToProcess[i'].file
                ELSE /\ NoCallNeeded(filesToProcess, i + 1, Len(filesToProcess))
                     /\ call' = NULL
           /\ [k \in 1..Len(batchFiles') |-> batchFiles'[k].id]
                = [k \in 1..Len(batchFiles) |-> batchFiles[k].id]
           /\ filesToProcess[i].id \notin ItemIds(batchFiles) =>
                \A k \in 1..Len(batchFiles) :
                  \/ batchFiles'[k] = batchFiles[k]
                  \/ /\ pc' = "file"
                     /\ batchFiles[k].id = filesToProcess[i'].id ]_vars

\* C24 witness: the second item of the run was removed while the call of
\* the first was in flight; its call was issued all the same and has just
\* succeeded; the item is not in the queue.
C24_Witness ==
  /\ last.op = "settle"
  /\ last.files[1].ok
  /\ last.id = 2
  /\ last.id \notin ItemIds(batchFiles)
  /\ Len(batchFiles) >= 1
  /\ batchFiles[1].id = 1
  /\ batchFiles[1].status \in {"success", "error"}

(***************************************************************************)
(* The items in 'processing'.                                              *)
(***************************************************************************)
Processing == { k \in 1..Len(batchFiles) : batchFiles[k].status = "processing" }

\* C25: in every reachable state at most one item of the queue is in
\* 'processing', and when an item is in 'processing' the run status is
\* 'processing': no item is in 'processing' when the run status is 'idle'.
C25_OneProcessing ==
  /\ Cardinality(Processing) <= 1
  /\ Processing # {} => status = "processing"

\* C25 witness: the second item is in 'processing' beside a settled first
\* item and a third item that waits; the run status is 'processing'.
C25_Witness ==
  /\ Len(batchFiles) = 3
  /\ batchFiles[1].status \in {"success", "error"}
  /\ batchFiles[2].status = "processing"
  /\ batchFiles[3].status = "idle"
  /\ status = "processing"

\* A run has ended after the item in 'processing' was removed and an item
\* was enqueued: the run status is 'idle' and no item is in 'processing'.
C25_WitnessIdle ==
  /\ last.op = "settle"
  /\ status = "idle"
  /\ last.id \notin ItemIds(batchFiles)
  /\ Len(batchFiles) >= 1
  /\ Processing = {}

(***************************************************************************)
(* The text result after a failed text run.                                *)
(***************************************************************************)
\* C26: a text run that fails leaves the text result as it was: neither its
\* start nor the settlement of its failed call changes textResult, so that
\* the result of an earlier successful run is still stored while the
\* status is 'error', and is what getCurrentResult returns in text mode.
C26_FailedRunKeepsResult ==
  [][ /\ (last'.op = "handleConvert" /\ pc' = "text") => textResult' = textResult
      /\ (last'.op = "settle" /\ pc = "text" /\ ~last'.files[1].ok) =>
           /\ status' = "error"
           /\ textResult' = textResult
           /\ inputMode' = "text" => getCurrentResult' = textResult ]_vars

\* C26 witness: after a successful text run a second text run has just
\* failed; the status is 'error' and the displayed result is the text of
\* the first run.
C26_Witness ==
  /\ last.op = "settle"
  /\ last.id = -1
  /\ ~last.files[1].ok
  /\ inputMode = "text"
  /\ status = "error"
  /\ textResult = <<"r","1">>
  /\ getCurrentResult = <<"r","1">>

(***************************************************************************)
(* The export of a result under another target than that of its            *)
(* conversion.                                                             *)
(***************************************************************************)
\* Conversions started with the target JSON only, the target changed at any
\* time, and the export of the results.
NextReexport ==
  \/ \E mode \in {"text", "file"} : handleInputModeChange(mode)
  \/ setInputText(<<"a">>)
  \/ Len(batchFiles) = 0 /\ processFiles(<<FilePdf>>)
  \/ \E format \in TargetFormat : setTargetFormat(format)
  \/ targetFormat = TARGET_JSON /\ handleConvert
  \/ settleText(Response(Some(<<"r","1">>)))
  \/ settleFile(Response(Some(<<"r","1">>)))
  \/ handleDownload

SpecReexport == Init /\ [][NextReexport]_vars

\* The extension of the specification's export table.
TableExtension(format) ==
  CASE format = "JSON" -> <<"j","s","o","n">>
    [] format = "CSV" -> <<"c","s","v">>
    [] format = "HTML" -> <<"h","t","m","l">>
    [] format = "Markdown" -> <<"m","d">>
    [] format = "XML" -> <<"x","m","l">>
    [] format = "SQL" -> <<"s","q","l">>
    [] format = "YAML" -> <<"y","a","m","l">>
    [] format = TARGET_DOCX -> <<"d","o","c">>
    [] OTHER -> <<"t","x","t">>

\* C27: the export of a result has the extension (and the content-type) of
\* the target selected when it is exported, not of the target of its
\* conversion: a change of the target changes no stored result, and the
\* export made after it carries the stored result under the extension of
\* the new target.
C27_ExportFollowsTarget ==
  [][ /\ last'.op = "setTargetFormat" =>
           /\ textResult' = textResult
           /\ batchFiles' = batchFiles
           /\ getCurrentResult' = getCurrentResult
      /\ last'.op = "handleDownload" =>
           /\ download'[1].content = getCurrentResult
           /\ splitPop(download'[1].download) = TableExtension(targetFormat)
           /\ (download'[1].type = <<"t","e","x","t","/","c","s","v">>)
                <=> (targetFormat = "CSV")
           /\ UNCHANGED << textResult, batchFiles >> ]_vars

\* C27 witness: the result of a conversion to JSON was exported after the
\* target was changed to CSV: the file is a csv of type text/csv with the
\* converted text as it was.
C27_Witness ==
  /\ last.op = "handleDownload"
  /\ inputMode = "text"
  /\ targetFormat = TARGET_CSV
  /\ textResult = <<"r","1">>
  /\ download = Some([download |-> <<"t","e","x","t","-","c","o","n","v","e","r","t",".","c","s","v">>,
                      type |-> <<"t","e","x","t","/","c","s","v">>,
                      content |-> <<"r","1">>])

\* An export in text mode under a name with white space around and inside
\* it: the name is trimmed, its inner white space is kept and its dot is
\* replaced.
C16_WitnessNamed ==
  /\ last.op = "handleDownload"
  /\ inputMode = "text"
  /\ targetFormat = TARGET_JSON
  /\ IsSet(download)
  /\ download[1].download = <<"a",VT,"\r","_","b",".","j","s","o","n">>

====
